---- MODULE Spec2Model ----
(***************************************************************************)
(* A model of package testutil (src/testutil.go): the polling helper       *)
(* WaitFor, the fake-service factories that use it, the crash assertion    *)
(* ShouldCrash, the output capture CaptureStdout and the redis listener    *)
(* ListenRedisChan.                                                        *)
(*                                                                         *)
(* One helper is exercised per behaviour: a Call... action leaves the      *)
(* "none" state, the helper's steps follow, and its last state is final.   *)
(* Time is a discrete clock (one unit is one second, the unit of the two   *)
(* timeouts the factories pass).                                           *)
(***************************************************************************)
EXTENDS Integers, Sequences, FiniteSets

\* ---------------------------------------------------------------- bounds
\* The clock may advance this far before a helper is entered.
MaxStart == 1
\* Timeouts a test passes to WaitFor: 0..MaxTimeout.
MaxTimeout == 2
\* A probe turns true after at most MaxN false answers (or never does).
MaxN == 2
\* The clock advances after at most MaxSpin probe calls that took no time.
MaxSpin == 2
\* A wait is followed until the clock is MaxOver past its deadline.
MaxOver == 2

\* A test function calls ShouldCrash at most MaxTestCalls times.
MaxTestCalls == 2

\* The pipe of CaptureStdout holds PipeCap bytes (65536 on Linux).
PipeCap == 2
\* A test calls CaptureStdout at most MaxCaptures times, one call after the
\* other.
MaxCaptures == 2
\* The redis connection delivers at most MaxNotifs notifications.
MaxNotifs == 3

\* --------------------------------------------------- program constants
\* WaitFor(tryConnect, fail, 10*time.Second) in NewFakeSQS.
SQSTimeout == 10
\* WaitFor(tryConnect, fail, 3*time.Second) in NewFakeS3.
S3Timeout == 3

\* A probe that never answers true.
Never == 0 - 1
\* "Not yet": the value of an instant that has not been recorded.
None == 0 - 1

VARIABLES
    op,          \* the helper under execution, "none" before the call
    now,         \* time.Now(), in seconds
    \* ---- WaitFor(try, fail, timeout)
    wpc,         \* "idle", "loop" (top of the for), "try" (inside try()),
                 \* "done" (returned), "exited" (fail ended the process)
    start,       \* start := time.Now()
    timeout,     \* the timeout argument
    probeN,      \* try answers false on its first probeN calls (Never: always)
    failKind,    \* "returns": fail comes back; "exits": fail is a log.Fatal
    tryCalls,    \* calls of try made so far
    failCalls,   \* calls of fail made so far
    spin,        \* calls of try started since the clock last advanced
    lastFalseAt, \* elapsed time read after the latest false answer
    trueAt,      \* elapsed time at which try answered true
    failAt,      \* elapsed time read by the check that called fail
    triesAtFail, \* tryCalls when fail was called
    waitCalls,   \* number of times WaitFor was entered
    \* ---- the factories
    fpc,         \* "idle", "waiting", "returned", "exited"
    dials,       \* connection attempts made by NewFakeRedis's Dial
    \* ---- ShouldCrash(testName, try, fail); processes "top" and "child"
    tries,       \* the test function: what the try of its i-th call does
    env,         \* per process: the value of SHOULD_CRASH ("" when absent)
    pc,          \* per process: "off", "test" (in the test function, at its
                 \* next call of ShouldCrash), "try" (inside try()), "run"
                 \* (blocked in cmd.Run()), "verdict" (cmd.Run() is back),
                 \* "exited", "finished" (the test function returned)
    idx,         \* per process: the call of ShouldCrash it is at
    exitCode,    \* per process: its exit status
    runErr,      \* err of cmd.Run(): "nil", "ExitError", "StartError"
    runs,        \* per call of top: invocations of cmd.Run()
    spawned,     \* per call of top: child processes started
    launchErr,   \* per call of top: cmd.Run() could not start the child
    childTry,    \* per call of top: the call whose try its child executed
    childExit,   \* per call of top: the exit status of its child
    childReturned, \* per call of top: try came back in its child
    fails,       \* per call of top: calls of fail
    failBy,      \* per process: calls of fail
    spawnBy,     \* per process: child processes started
    tryLog,      \* the <<process, call>> pairs whose try was executed
    \* ---- CaptureStdout(printFunction)
    cpc,         \* "idle", "print" (inside printFunction), "copy" (w is
                 \* closed, io.Copy is next), "ret" (returned)
    stdout,      \* the global os.Stdout: "orig", "file" (the test has
                 \* redirected it) or "w" (the pipe's write end)
    entryStdout, \* os.Stdout when the current call was entered
    captures,    \* calls of CaptureStdout made so far
    originalStdOut, \* the local of that name
    toWrite,     \* what printFunction has still to write to os.Stdout
    printErr,    \* printFunction returns a non-nil error
    fault,       \* the call that fails: "none", "pipe", "close", "copy"
    pipe,        \* the bytes in the pipe
    written,     \* the bytes written to os.Stdout during the call
    terminal,    \* the bytes that reached the original os.Stdout
    result,      \* the string CaptureStdout returned
    resultErr,   \* the error it returned: "nil", "pipe", "print", ...
    \* ---- ListenRedisChan(pool, c)
    lpc,         \* the goroutine: "off", "receive" (in psc.Receive()),
                 \* "send" (blocked in ret <- struct{}{}), "fatal"
    inbox,       \* the notifications the connection has still to deliver
    messages,    \* redis.Message values received so far
    signals      \* values the consumer has taken from the returned channel

wvars == <<wpc, start, timeout, probeN, failKind, tryCalls, failCalls, spin,
           lastFalseAt, trueAt, failAt, triesAtFail, waitCalls>>
fvars == <<fpc, dials>>
scvars == <<tries, env, pc, idx, exitCode, runErr, runs, spawned, launchErr,
            childTry, childExit, childReturned, fails, failBy, spawnBy,
            tryLog>>
cvars == <<cpc, stdout, entryStdout, captures, originalStdOut, toWrite, printErr, fault, pipe,
           written, terminal, result, resultErr>>
lvars == <<lpc, inbox, messages, signals>>
vars == <<op, now, wvars, fvars, scvars, cvars, lvars>>

Probes == (0..MaxN) \cup {Never}

\* ------------------------------------------------------------- WaitFor

\* The answer of the k-th call of a probe that is false on its first n calls.
ProbeResult(n, k) == n # Never /\ k > n

\* A plausible slip: the deadline counts as passed as soon as it is reached.
Expired_AtLeast(elapsed, t) == elapsed >= t

\* A plausible slip: the comparison is inverted.
Expired_Inverted(elapsed, t) == elapsed < t

\* time.Now().Sub(start) > timeout
Expired(elapsed, t) == elapsed > t

\* Entry of WaitFor: start := time.Now(), then the top of the loop.
WaitForEnter(t, n, fk) ==
    /\ wpc' = "loop"
    /\ start' = now
    /\ timeout' = t
    /\ probeN' = n
    /\ failKind' = fk
    /\ waitCalls' = waitCalls + 1
    /\ UNCHANGED <<tryCalls, failCalls, spin, lastFalseAt, trueAt, failAt,
                   triesAtFail>>

\* The loop calls try().
TryCall ==
    /\ wpc = "loop"
    /\ spin < MaxSpin
    /\ wpc' = "try"
    /\ tryCalls' = tryCalls + 1
    /\ spin' = spin + 1
    /\ UNCHANGED <<op, now, start, timeout, probeN, failKind, failCalls,
                   lastFalseAt, trueAt, failAt, triesAtFail, waitCalls, fvars, scvars, cvars, lvars>>

\* try() comes back: on true WaitFor returns; on false the clock is read, and
\* past the deadline fail() is called and WaitFor returns (unless fail ended
\* the process); otherwise the loop goes round.
TryReturn ==
    /\ wpc = "try"
    /\ LET elapsed == now - start IN
       IF ProbeResult(probeN, tryCalls)
       THEN /\ wpc' = "done"
            /\ trueAt' = elapsed
            /\ UNCHANGED <<failCalls, lastFalseAt, failAt, triesAtFail>>
       ELSE /\ lastFalseAt' = elapsed
            /\ UNCHANGED trueAt
            /\ IF Expired(elapsed, timeout)
               THEN /\ failCalls' = failCalls + 1
                    /\ failAt' = elapsed
                    /\ triesAtFail' = tryCalls
                    /\ wpc' = IF failKind = "exits" THEN "exited" ELSE "done"
               ELSE /\ wpc' = "loop"
                    /\ UNCHANGED <<failCalls, failAt, triesAtFail>>
    /\ UNCHANGED <<op, now, start, timeout, probeN, failKind, tryCalls, spin,
                   waitCalls, fvars, scvars, cvars, lvars>>

\* The clock advances: before the helper is entered, and while WaitFor runs
\* (inside try() or between two calls).
Tick ==
    /\ \/ op = "none" /\ now < MaxStart
       \/ wpc \in {"loop", "try"} /\ now - start < timeout + MaxOver
    /\ now' = now + 1
    /\ spin' = 0
    /\ UNCHANGED <<op, wpc, start, timeout, probeN, failKind, tryCalls,
                   failCalls, lastFalseAt, trueAt, failAt, triesAtFail,
                   waitCalls, fvars, scvars, cvars, lvars>>

\* A test calls WaitFor directly.
CallWaitFor ==
    /\ op = "none"
    /\ op' = "WaitFor"
    /\ \E t \in 0..MaxTimeout, n \in Probes, fk \in {"returns", "exits"} :
          WaitForEnter(t, n, fk)
    /\ UNCHANGED <<now, fvars, scvars, cvars, lvars>>

\* ----------------------------------------------------------- factories

\* A plausible slip: the wait is started with "go WaitFor(...)", so the
\* factory goes on while the loop still runs.
WaitReturned_Go(w) == w \in {"loop", "try", "done"}

\* WaitFor(tryConnect, fail, ...) is an ordinary call: the factory goes on
\* when WaitFor has returned.
WaitReturned(w) == w = "done"

\* fail := func() { log.Fatal(...) } in NewFakeSQS and NewFakeS3.
FactoryFail == "exits"

\* NewFakeRedis: Pool.Get() dials once (log.Fatal when the connection is
\* refused, an error connection when SELECT fails), FLUSHDB, Close, return r.
NewFakeRedis ==
    /\ op = "none"
    /\ op' = "NewFakeRedis"
    /\ dials' = dials + 1
    /\ \E dial \in {"ok", "refused", "selectError"} :
          fpc' = IF dial = "refused" THEN "exited" ELSE "returned"
    /\ UNCHANGED <<now, wvars, scvars, cvars, lvars>>

\* NewFakeSQS up to its call of WaitFor; the probe is CreateQueue.
NewFakeSQS_Call ==
    /\ op = "none"
    /\ op' = "NewFakeSQS"
    /\ fpc' = "waiting"
    /\ \E n \in Probes : WaitForEnter(SQSTimeout, n, FactoryFail)
    /\ UNCHANGED <<now, dials, scvars, cvars, lvars>>

\* NewFakeSQS after WaitFor has returned: s.URL is set, return s.
NewFakeSQS_Return ==
    /\ op = "NewFakeSQS"
    /\ fpc = "waiting"
    /\ WaitReturned(wpc)
    /\ fpc' = "returned"
    /\ UNCHANGED <<op, now, wvars, dials, scvars, cvars, lvars>>

\* NewFakeS3 up to its call of WaitFor; the probe is net.Dial.
NewFakeS3_Call ==
    /\ op = "none"
    /\ op' = "NewFakeS3"
    /\ fpc' = "waiting"
    /\ \E n \in Probes : WaitForEnter(S3Timeout, n, FactoryFail)
    /\ UNCHANGED <<now, dials, scvars, cvars, lvars>>

\* NewFakeS3 after WaitFor has returned: CreateBucket, log.Fatal on its
\* error, otherwise return s.
NewFakeS3_Return ==
    /\ op = "NewFakeS3"
    /\ fpc = "waiting"
    /\ WaitReturned(wpc)
    /\ \E createBucketOk \in BOOLEAN :
          fpc' = IF createBucketOk THEN "returned" ELSE "exited"
    /\ UNCHANGED <<op, now, wvars, dials, scvars, cvars, lvars>>

\* --------------------------------------------------------- ShouldCrash

Procs == {"top", "child"}
Calls == 1..MaxTestCalls
\* What a try function does: log.Fatal (exit status 1), come back, or
\* os.Exit(0).
TryKinds == {"crash", "return", "exit0"}
Tests == UNION {[1..n -> TryKinds] : n \in 1..MaxTestCalls}

\* A plausible slip: the comparison with "1" is inverted.
IsChildRole_Inverted(v) == v # "1"

\* os.Getenv("SHOULD_CRASH") == "1"
IsChildRole(v) == v = "1"

\* cmd.Env = append(os.Environ(), "SHOULD_CRASH=1")
ChildEnv(v) == "1"

\* A plausible slip: the child is taken to go on from the call that spawned
\* it.
ChildEntryCall_Resume(i) == i

\* exec.Command(os.Args[0], "-test.run="+testName): the child runs the named
\* test from its start, so the first ShouldCrash it meets is the test's first.
ChildEntryCall(i) == 1

\* cmd.Run() of a child that ran: *exec.ExitError exactly when the exit status
\* is not 0.
RunError(code) == IF code # 0 THEN "ExitError" ELSE "nil"

\* A plausible slip: the "!" before e.Success() is dropped; an ExitError is
\* never a success, so the test never passes.
Crashed_NoBang(err) == FALSE

\* A plausible slip: any error of cmd.Run() counts as a crash.
Crashed_AnyError(err) == err # "nil"

\* e, ok := err.(*exec.ExitError); ok && !e.Success()
Crashed(err) == err = "ExitError"

\* A test function that calls ShouldCrash is started.
CallShouldCrash ==
    /\ op = "none"
    /\ op' = "ShouldCrash"
    /\ \E t \in Tests, v \in {"", "1"} :
          /\ tries' = t
          /\ env' = [env EXCEPT !["top"] = v]
    /\ pc' = [pc EXCEPT !["top"] = "test"]
    /\ idx' = [idx EXCEPT !["top"] = 1]
    /\ UNCHANGED <<now, wvars, fvars, cvars, lvars, exitCode, runErr, runs, spawned,
                   launchErr, childTry, childExit, childReturned, fails,
                   failBy, spawnBy, tryLog>>

\* Process p enters ShouldCrash: with the marker it calls try; without it, it
\* builds the command and calls cmd.Run(), which starts the child or fails to.
ShouldCrashEnter(p) ==
    /\ op = "ShouldCrash"
    /\ pc[p] = "test"
    /\ idx[p] \in DOMAIN tries
    /\ IF IsChildRole(env[p])
       THEN /\ pc' = [pc EXCEPT ![p] = "try"]
            /\ tryLog' = tryLog \cup {<<p, idx[p]>>}
            /\ childTry' = IF p = "child"
                           THEN [childTry EXCEPT ![idx["top"]] = idx[p]]
                           ELSE childTry
            /\ UNCHANGED <<env, idx, exitCode, runErr, runs, spawned,
                           launchErr, spawnBy>>
       ELSE /\ p = "top"
            /\ runs' = [runs EXCEPT ![idx[p]] = @ + 1]
            /\ \/ /\ runErr' = "StartError"
                  /\ launchErr' = [launchErr EXCEPT ![idx[p]] = TRUE]
                  /\ pc' = [pc EXCEPT ![p] = "verdict"]
                  /\ UNCHANGED <<env, idx, exitCode, spawned, spawnBy>>
               \/ /\ pc' = [pc EXCEPT ![p] = "run", !["child"] = "test"]
                  /\ env' = [env EXCEPT !["child"] = ChildEnv(env[p])]
                  /\ idx' = [idx EXCEPT !["child"] = ChildEntryCall(idx[p])]
                  /\ exitCode' = [exitCode EXCEPT !["child"] = None]
                  /\ spawned' = [spawned EXCEPT ![idx[p]] = @ + 1]
                  /\ spawnBy' = [spawnBy EXCEPT ![p] = @ + 1]
                  /\ UNCHANGED <<runErr, launchErr>>
            /\ UNCHANGED <<tryLog, childTry>>
    /\ UNCHANGED <<op, now, wvars, fvars, cvars, lvars, tries, childExit, childReturned,
                   fails, failBy>>

\* try() ends in process p: it ended the process, or it came back and
\* os.Exit(0) follows.
TryEnds(p) ==
    /\ op = "ShouldCrash"
    /\ pc[p] = "try"
    /\ pc' = [pc EXCEPT ![p] = "exited"]
    /\ exitCode' = [exitCode EXCEPT
                      ![p] = IF tries[idx[p]] = "crash" THEN 1 ELSE 0]
    /\ childReturned' =
          IF p = "child" /\ tries[idx[p]] = "return"
          THEN [childReturned EXCEPT ![idx["top"]] = TRUE]
          ELSE childReturned
    /\ UNCHANGED <<op, now, wvars, fvars, cvars, lvars, tries, env, idx, runErr, runs,
                   spawned, launchErr, childTry, childExit, fails, failBy,
                   spawnBy, tryLog>>

\* The test function of process p comes back: the test binary ends.
TestEnds(p) ==
    /\ op = "ShouldCrash"
    /\ pc[p] = "test"
    /\ idx[p] \notin DOMAIN tries
    /\ pc' = [pc EXCEPT ![p] = "finished"]
    /\ exitCode' = [exitCode EXCEPT ![p] = 0]
    /\ UNCHANGED <<op, now, wvars, fvars, cvars, lvars, tries, env, idx, runErr, runs,
                   spawned, launchErr, childTry, childExit, childReturned,
                   fails, failBy, spawnBy, tryLog>>

\* cmd.Run() comes back in top once the child has terminated.
RunReturns ==
    /\ op = "ShouldCrash"
    /\ pc["top"] = "run"
    /\ pc["child"] \in {"exited", "finished"}
    /\ runErr' = RunError(exitCode["child"])
    /\ childExit' = [childExit EXCEPT ![idx["top"]] = exitCode["child"]]
    /\ pc' = [pc EXCEPT !["top"] = "verdict", !["child"] = "off"]
    /\ UNCHANGED <<op, now, wvars, fvars, cvars, lvars, tries, env, idx, exitCode, runs,
                   spawned, launchErr, childTry, childReturned, fails, failBy,
                   spawnBy, tryLog>>

\* The verdict of top: return on a crash, fail() otherwise; the test function
\* then goes on to its next call.
Verdict ==
    /\ op = "ShouldCrash"
    /\ pc["top"] = "verdict"
    /\ IF Crashed(runErr)
       THEN UNCHANGED <<fails, failBy>>
       ELSE /\ fails' = [fails EXCEPT ![idx["top"]] = @ + 1]
            /\ failBy' = [failBy EXCEPT !["top"] = @ + 1]
    /\ pc' = [pc EXCEPT !["top"] = "test"]
    /\ idx' = [idx EXCEPT !["top"] = @ + 1]
    /\ UNCHANGED <<op, now, wvars, fvars, cvars, lvars, tries, env, exitCode, runErr, runs,
                   spawned, launchErr, childTry, childExit, childReturned,
                   spawnBy, tryLog>>

\* ------------------------------------------------------- CaptureStdout

Bytes == {"a", "b"}
\* printFunction writes up to one byte more than the pipe holds.
MaxData == PipeCap + 1
Outputs == UNION {[1..n -> Bytes] : n \in 0..MaxData}

\* A plausible slip: the deferred function is left out, os.Stdout stays w.
Restored_Missing(o) == "w"

\* defer func() { os.Stdout = originalStdOut }()
Restored(o) == o

\* A test calls CaptureStdout, for the first time or after an earlier call
\* has returned: os.Pipe() (a new, empty pipe), and unless that fails
\* os.Stdout is saved and replaced by w, and printFunction is called.
CallCaptureStdout ==
    /\ \/ op = "none"
       \/ op = "CaptureStdout" /\ cpc = "ret" /\ captures < MaxCaptures
    /\ op' = "CaptureStdout"
    /\ captures' = captures + 1
    /\ entryStdout' = stdout
    /\ pipe' = <<>>
    /\ written' = <<>>
    /\ result' = <<>>
    /\ \E d \in Outputs, e \in BOOLEAN,
          f \in {"none", "pipe", "close", "copy"} :
          /\ toWrite' = d
          /\ printErr' = e
          /\ fault' = f
          /\ IF f = "pipe"
             THEN /\ cpc' = "ret"
                  /\ resultErr' = "pipe"
                  /\ UNCHANGED <<stdout, originalStdOut>>
             ELSE /\ cpc' = "print"
                  /\ originalStdOut' = stdout
                  /\ stdout' = "w"
                  /\ resultErr' = "nil"
    /\ UNCHANGED <<now, wvars, fvars, scvars, lvars, terminal>>

\* printFunction writes its next byte to os.Stdout; a write to the pipe needs
\* room in it, and nothing reads the pipe before printFunction has returned.
PrintWrite ==
    /\ cpc = "print"
    /\ toWrite # <<>>
    /\ IF stdout = "w"
       THEN /\ Len(pipe) < PipeCap
            /\ pipe' = Append(pipe, Head(toWrite))
            /\ UNCHANGED terminal
       ELSE /\ terminal' = Append(terminal, Head(toWrite))
            /\ UNCHANGED pipe
    /\ written' = Append(written, Head(toWrite))
    /\ toWrite' = Tail(toWrite)
    /\ UNCHANGED <<op, now, wvars, fvars, scvars, lvars, cpc, stdout,
                   entryStdout, captures, originalStdOut, printErr, fault,
                   result, resultErr>>

\* printFunction returns: on its error "", err is returned; otherwise
\* w.Close(), and on its error "", err is returned.  Every return runs the
\* deferred restore of os.Stdout.
PrintReturns ==
    /\ cpc = "print"
    /\ toWrite = <<>>
    /\ IF printErr \/ fault = "close"
       THEN /\ cpc' = "ret"
            /\ result' = <<>>
            /\ resultErr' = IF printErr THEN "print" ELSE "close"
            /\ stdout' = Restored(originalStdOut)
       ELSE /\ cpc' = "copy"
            /\ UNCHANGED <<result, resultErr, stdout>>
    /\ UNCHANGED <<op, now, wvars, fvars, scvars, lvars, entryStdout,
                   captures, originalStdOut,
                   toWrite, printErr, fault, pipe, written, terminal>>

\* io.Copy(&buf, r) reads the pipe to its end (w is closed); buf.String() is
\* returned, or "", err when the copy fails.
Copy ==
    /\ cpc = "copy"
    /\ cpc' = "ret"
    /\ IF fault = "copy"
       THEN /\ result' = <<>>
            /\ resultErr' = "copy"
            /\ UNCHANGED pipe
       ELSE /\ result' = pipe
            /\ resultErr' = "nil"
            /\ pipe' = <<>>
    /\ stdout' = Restored(originalStdOut)
    /\ UNCHANGED <<op, now, wvars, fvars, scvars, lvars, entryStdout,
                   captures, originalStdOut,
                   toWrite, printErr, fault, written, terminal>>

\* ----------------------------------------------------- ListenRedisChan

\* What psc.Receive() may return: the three cases of the switch, and any
\* other value (a redis.PMessage, a redis.Pong), which no case matches.
Notifs == {"Message", "Subscription", "error", "other"}
Inboxes == UNION {[1..n -> Notifs] : n \in 0..MaxNotifs}

\* A plausible slip: the redis.Subscription case signals too.
Signals_Subscription(v) == v \in {"Message", "Subscription"}

\* case redis.Message: ret <- struct{}{}
Signals(v) == v = "Message"

\* ListenRedisChan makes the channel, starts the goroutine (which takes a
\* connection, subscribes and enters the loop) and returns the channel.
CallListenRedisChan ==
    /\ op = "none"
    /\ op' = "ListenRedisChan"
    /\ lpc' = "receive"
    /\ \E q \in Inboxes : inbox' = q
    /\ UNCHANGED <<now, wvars, fvars, scvars, cvars, messages, signals>>

\* psc.Receive() returns the next notification and the switch handles it: a
\* message starts the send on the unbuffered channel, an error is a
\* log.Fatal, anything else goes round the loop.
Receive ==
    /\ lpc = "receive"
    /\ inbox # <<>>
    /\ LET v == Head(inbox) IN
          /\ lpc' = IF Signals(v) THEN "send"
                    ELSE IF v = "error" THEN "fatal"
                    ELSE "receive"
          /\ messages' = messages + (IF v = "Message" THEN 1 ELSE 0)
    /\ inbox' = Tail(inbox)
    /\ UNCHANGED <<op, now, wvars, fvars, scvars, cvars, signals>>

\* The consumer receives from the returned channel: the goroutine's send
\* completes and it goes round the loop.
Take ==
    /\ lpc = "send"
    /\ lpc' = "receive"
    /\ signals' = signals + 1
    /\ UNCHANGED <<op, now, wvars, fvars, scvars, cvars, inbox, messages>>

\* ------------------------------------------------------- specification

Init ==
    /\ op = "none"
    /\ now = 0
    /\ wpc = "idle"
    /\ start = 0
    /\ timeout = 0
    /\ probeN = Never
    /\ failKind = "returns"
    /\ tryCalls = 0
    /\ failCalls = 0
    /\ spin = 0
    /\ lastFalseAt = None
    /\ trueAt = None
    /\ failAt = None
    /\ triesAtFail = None
    /\ waitCalls = 0
    /\ fpc = "idle"
    /\ dials = 0
    /\ tries = <<>>
    /\ env = [p \in Procs |-> ""]
    /\ pc = [p \in Procs |-> "off"]
    /\ idx = [p \in Procs |-> 0]
    /\ exitCode = [p \in Procs |-> None]
    /\ runErr = "nil"
    /\ runs = [i \in Calls |-> 0]
    /\ spawned = [i \in Calls |-> 0]
    /\ launchErr = [i \in Calls |-> FALSE]
    /\ childTry = [i \in Calls |-> 0]
    /\ childExit = [i \in Calls |-> None]
    /\ childReturned = [i \in Calls |-> FALSE]
    /\ fails = [i \in Calls |-> 0]
    /\ failBy = [p \in Procs |-> 0]
    /\ spawnBy = [p \in Procs |-> 0]
    /\ tryLog = {}
    /\ cpc = "idle"
    /\ stdout \in {"orig", "file"}
    /\ entryStdout = stdout
    /\ captures = 0
    /\ originalStdOut = "orig"
    /\ toWrite = <<>>
    /\ printErr = FALSE
    /\ fault = "none"
    /\ pipe = <<>>
    /\ written = <<>>
    /\ terminal = <<>>
    /\ result = <<>>
    /\ resultErr = "nil"
    /\ lpc = "off"
    /\ inbox = <<>>
    /\ messages = 0
    /\ signals = 0

Next ==
    \/ Tick
    \/ CallWaitFor
    \/ TryCall
    \/ TryReturn
    \/ NewFakeRedis
    \/ NewFakeSQS_Call
    \/ NewFakeSQS_Return
    \/ NewFakeS3_Call
    \/ NewFakeS3_Return
    \/ CallShouldCrash
    \/ \E p \in Procs : ShouldCrashEnter(p)
    \/ \E p \in Procs : TryEnds(p)
    \/ \E p \in Procs : TestEnds(p)
    \/ RunReturns
    \/ Verdict
    \/ CallCaptureStdout
    \/ PrintWrite
    \/ PrintReturns
    \/ Copy
    \/ CallListenRedisChan
    \/ Receive
    \/ Take

Spec == Init /\ [][Next]_vars

\* The calling goroutine keeps running, every call of try comes back and the
\* clock advances.
LiveSpec ==
    Spec /\ WF_vars(Tick) /\ WF_vars(TryCall) /\ WF_vars(TryReturn)

\* ------------------------------------------------------- WaitFor claims

Finished == wpc \in {"done", "exited"}

\* C1 (safety part): with a probe that is false on every call, fail is called
\* at most once, only by a check that read an elapsed time strictly greater
\* than timeout, no call of try follows it, and WaitFor does not end without
\* it.
C1_Safe ==
    (wpc # "idle" /\ probeN = Never) =>
        /\ failCalls <= 1
        /\ trueAt = None
        /\ failCalls = 1 =>
              /\ failAt > timeout
              /\ Finished
              /\ tryCalls = triesAtFail
              /\ failKind = "returns" => wpc = "done"
        /\ Finished => failCalls = 1

\* C1: for a probe that is false on every call (every call coming back, the
\* clock advancing), WaitFor calls fail exactly once, only after more than
\* timeout has elapsed since its entry, and then returns without calling try
\* or fail again.
C1_AlwaysFalseFailsOnce ==
    /\ []C1_Safe
    /\ (wpc = "loop" /\ probeN = Never) ~> (Finished /\ failCalls = 1)

C1_Witness ==
    /\ op = "WaitFor"
    /\ probeN = Never
    /\ wpc = "done"
    /\ failCalls = 1
    /\ tryCalls >= 2
    /\ failAt = timeout + 1

\* Number of false answers try has given once WaitFor has ended.
FalseAnswers == tryCalls - (IF trueAt # None THEN 1 ELSE 0)

C3_FailUnlessTrueInTime ==
    (wpc = "done" /\ ~(trueAt # None /\ trueAt <= timeout)) => failCalls >= 1

\* ----------------------------------------------------- factory claims

Completed(i) == env["top"] # "1" /\ idx["top"] > i

\* C4: in the parent role, ShouldCrash calls fail zero times when the child
\* running try terminates with a non-zero exit status, and exactly once when
\* try returns normally in the child (which then exits with status 0); the
\* child calls fail in neither case.
C4_FailIffNoCrash ==
    \A i \in Calls :
        Completed(i) =>
            /\ (childExit[i] # None /\ childExit[i] # 0) => fails[i] = 0
            /\ childReturned[i] => (childExit[i] = 0 /\ fails[i] = 1)
            /\ failBy["child"] = 0

C4_Witness ==
    /\ Completed(1)
    /\ childReturned[1]
    /\ childExit[1] = 0
    /\ fails[1] = 1

\* C5 as stated: when the child cannot be started, the failure is not
\* reported by calling fail.
C5_LaunchFailureIsNotFail ==
    \A i \in Calls : (Completed(i) /\ launchErr[i]) => fails[i] = 0

\* C5 amended: when cmd.Run() cannot start the child, its error is not an
\* *exec.ExitError, so ShouldCrash calls fail exactly once and returns to the
\* test function; no child ran, and the parent process is not terminated: a
\* launch failure is reported the same way as "the code under test did not
\* crash".
C5_LaunchFailureCallsFail ==
    \A i \in Calls :
        (Completed(i) /\ launchErr[i]) =>
            /\ fails[i] = 1
            /\ spawned[i] = 0
            /\ childExit[i] = None
            /\ pc["top"] \in {"test", "run", "verdict", "finished"}

C5_Witness ==
    /\ Completed(1)
    /\ launchErr[1]
    /\ tries[1] = "crash"
    /\ fails[1] = 1

\* C6: when a test function calls ShouldCrash more than once, every child
\* re-runs the test from its start, executes the try of the first call and
\* terminates there: the try of a later call is executed in no process, and
\* the verdict of a later call is that of the first call's try.
C6_LaterCallsNotTested ==
    /\ \A e \in tryLog : e[2] = 1
    /\ \A i \in Calls :
          (Completed(i) /\ spawned[i] > 0) =>
              /\ childTry[i] = 1
              /\ childExit[i] = (IF tries[1] = "crash" THEN 1 ELSE 0)
              /\ fails[i] = (IF tries[1] = "crash" THEN 0 ELSE 1)

C6_Witness ==
    /\ Completed(2)
    /\ tries = <<"crash", "return">>
    /\ spawned[2] = 1
    /\ childTry[2] = 1
    /\ fails[2] = 0

\* What C9 says of a process in the child role: it runs try and terminates
\* (with status 0 when try returns), and never starts a child or calls fail.
ChildRoleOnly(p) ==
    /\ spawnBy[p] = 0
    /\ failBy[p] = 0
    /\ pc[p] \in {"test", "try", "exited"}
    /\ pc[p] # "test" => <<p, idx[p]>> \in tryLog
    /\ (pc[p] = "exited" /\ tries[idx[p]] = "return") => exitCode[p] = 0

\* What C9 says of a process in the parent role, apart from the child it
\* starts: it never runs try itself, and a child runs only while the parent
\* is blocked in cmd.Run().
ParentRoleOnly(p) ==
    /\ \A e \in tryLog : e[1] # p
    /\ pc[p] \notin {"try", "exited"}
    /\ pc["child"] # "off" => pc[p] = "run"

\* C9 as stated: every process that calls ShouldCrash takes one role, chosen
\* from the marker; in the parent role each call starts exactly one child and
\* the verdict follows the child's termination.
C9_OneRoleOneChild ==
    \A p \in Procs :
        (pc[p] # "off" /\ op = "ShouldCrash") =>
            IF env[p] = "1"
            THEN ChildRoleOnly(p)
            ELSE /\ ParentRoleOnly(p)
                 /\ \A i \in Calls :
                       Completed(i) =>
                           (spawned[i] = 1 /\ childExit[i] # None)

\* C9 amended: as stated, except that in the parent role each call makes
\* exactly one attempt to start a child (one cmd.Run()); when the child
\* starts, the process waits for it to terminate before it returns or calls
\* fail; when it cannot be started there is no child, and fail is called.
C9_OneRoleOneAttempt ==
    \A p \in Procs :
        (pc[p] # "off" /\ op = "ShouldCrash") =>
            IF env[p] = "1"
            THEN ChildRoleOnly(p)
            ELSE /\ ParentRoleOnly(p)
                 /\ \A i \in Calls :
                       Completed(i) =>
                           /\ runs[i] = 1
                           /\ IF launchErr[i]
                              THEN /\ spawned[i] = 0
                                   /\ childExit[i] = None
                                   /\ fails[i] = 1
                              ELSE /\ spawned[i] = 1
                                   /\ childExit[i] # None

C9_Witness ==
    /\ Completed(2)
    /\ launchErr[1]
    /\ spawned[2] = 1
    /\ childExit[2] = 1

\* -------------------------------------------------- CaptureStdout claims

\* printFunction is inside a write to the full pipe; the pipe is read only by
\* io.Copy, which runs after printFunction has returned.
Blocked ==
    /\ cpc = "print"
    /\ toWrite # <<>>
    /\ stdout = "w"
    /\ Len(pipe) = PipeCap

\* C7: for every printFunction that writes any amount of data to os.Stdout
\* and returns nil, CaptureStdout returns and its result is exactly the bytes
\* written to os.Stdout during the call, with a nil error; if printFunction
\* returns an error, CaptureStdout returns the empty string and that error.
C7_CapturesAnyAmount ==
    (op = "CaptureStdout" /\ fault = "none") =>
        /\ ~printErr => ~Blocked
        /\ (~printErr /\ cpc = "ret") => (result = written /\ resultErr = "nil")
        /\ (printErr /\ cpc = "ret") => (result = <<>> /\ resultErr = "print")

\* ------------------------------------------------ ListenRedisChan claims

\* Values sent on the returned channel, the one being sent included.
Sent == signals + (IF lpc = "send" THEN 1 ELSE 0)

\* C8: for every redis.Message the goroutine receives exactly one value is
\* sent on the returned channel; a redis.Subscription produces no signal;
\* and the goroutine receives nothing more until the consumer has taken the
\* signal of the message before.
C8_OneSignalPerMessage ==
    op = "ListenRedisChan" =>
        /\ Sent = messages
        /\ messages - signals \in {0, 1}
        /\ messages - signals = 1 <=> lpc = "send"

C8_Witness ==
    /\ op = "ListenRedisChan"
    /\ inbox = <<>>
    /\ messages = 2
    /\ signals = 2
    /\ lpc = "receive"

\* C11: after any sequence of CaptureStdout calls made one after the other,
\* on every return path of each call (pipe creation error, printFunction
\* error, close error, copy error, success) the global os.Stdout holds the
\* value it held when that call was entered; while printFunction runs,
\* os.Stdout is the write end of the pipe.
C11_StdoutRestored ==
    op = "CaptureStdout" =>
        /\ cpc = "ret" => stdout = entryStdout
        /\ cpc = "print" => stdout = "w"
        /\ entryStdout \in {"orig", "file"}

C11_Witness ==
    /\ op = "CaptureStdout"
    /\ captures = 2
    /\ cpc = "ret"
    /\ fault = "none"
    /\ ~printErr
    /\ resultErr = "nil"
    /\ Len(result) = PipeCap
    /\ entryStdout = "file"
    /\ stdout = "file"

====
